---- MODULE Spec2Model ----
(***************************************************************************)
(* Model of the Windows app-focus tracker plugin                           *)
(* (windows/app_focus_tracker_plugin.cpp): the focus-event state machine,  *)
(* its two background loops and the cross-thread event delivery channel.   *)
(*                                                                         *)
(* Threads: "P" is the platform thread (method calls, stream-handler       *)
(* calls, the message window procedure and the WinEvent callback, which    *)
(* WINEVENT_OUTOFCONTEXT delivers on the thread that installed the hook),  *)
(* "U" is update_timer_ and "B" is browser_tab_check_timer_.               *)
(***************************************************************************)
EXTENDS Integers, Sequences, FiniteSets, TLC

\* ------------------------------------------------------------------ bounds
\* steady_clock readings range over 0..MaxTime
MaxTime == 2
\* number of Stopped -> Tracking transitions explored
MaxRuns == 2
\* capacity of event_queue_ (1000 in the program)
kMaxQueueSize == 2
\* flush messages the platform thread's message queue holds before
\* PostMessage fails
MaxFlushMsgs == 2
\* events the abstract producers of SpecChannel hand to QueueEvent
MaxEventId == 4
\* length of the explored interleavings, in steps
MaxSteps == 11

\* ------------------------------------------------------- windows, processes
NullHwnd == 0
EditorWindow == 1
BrowserWindow == 2
\* the top-level window of the application the plugin runs in, owned by the
\* platform thread
OwnWindow == 3
Windows == {EditorWindow, BrowserWindow, OwnWindow}
\* what GetForegroundWindow() returns
ForegroundWindows == Windows \cup {NullHwnd}
\* a handle whose window is gone when the handler looks at it
StaleWindow == 4
\* what the WinEvent hook reports: WINEVENT_SKIPOWNPROCESS, and
\* WINEVENT_OUTOFCONTEXT delivers the notification after the fact
HookedWindows == (ForegroundWindows \ {OwnWindow}) \cup {StaleWindow}
\* a window of the shell, one of the executables of system_apps
SystemWindow == 5
\* a second window of the browser's process
SecondBrowserWindow == 6

EditorPath == <<"C:", "Tools", "editor.exe">>
OwnPath == <<"C:", "App", "tracker_app.exe">>
BrowserPath == <<"C:", "Google", "chrome.exe">>
SystemPath == <<"C:", "Windows", "explorer.exe">>
EmptyString == <<>>

\* window titles, as token sequences; digit runs, '.' and ',' are tokens of
\* their own except inside a host name
ChromeSuffix == <<"-", "Google Chrome">>
TitleA == <<"a.com">> \o ChromeSuffix
TitleB == <<"b.com">> \o ChromeSuffix
TitleInbox == <<"Inbox", "1">> \o ChromeSuffix
BrowserTitles == {TitleA, TitleB, TitleInbox}
EditorTitle == <<"notes">>
OwnTitle == <<"tracker">>
SystemTitle == <<"Program Manager">>
DomainTokens == {"a.com", "b.com"}
VolatileTokens == {"0", "1", "2", "3", "4", "5", "6", "7", "8", "9", ".", ","}

\* ------------------------------------------------------------------- state
VARIABLES
    \* AppFocusTrackerPlugin fields
    is_tracking_, current_process_id_, current_focused_window_,
    focus_start_time_, session_id_, config_, g_event_hook,
    last_browser_tab_info_,
    event_queue_, event_sink_, message_window_,
    \* the threads that hold event_sink_mutex_ and event_queue_mutex_, and
    \* local_queue of FlushEventQueue
    event_sink_mutex_, event_queue_mutex_, local_queue,
    \* thread positions and locals
    pcP, locP, pcU, locU, pcB, locB,
    \* the platform thread's message queue: pending kFlushMessageId messages
    \* and the armed retry timer
    flush_msgs, retry_timer,
    \* steady_clock
    now,
    \* observation: what the last step handed to QueueEvent (out) and to the
    \* consumer callback (cb), and running summaries of the event stream
    out, cb, balance, prevUpd, run_emitted, sessions,
    next_event_id, delivered, dropped, steps,
    \* process id and identifier of the run's latest "gained" event
    last_gained,
    \* what the method call completed by the last step answered
    result

tracker == <<is_tracking_, current_process_id_, current_focused_window_,
             focus_start_time_, session_id_, config_, g_event_hook,
             last_browser_tab_info_>>
channel == <<event_queue_, event_sink_, message_window_,
             flush_msgs, retry_timer>>
locks == <<event_sink_mutex_, event_queue_mutex_, local_queue>>
threads == <<pcP, locP, pcU, locU, pcB, locB>>
desktop == <<now>>
observed == <<out, cb, balance, prevUpd, run_emitted, sessions,
              next_event_id, delivered, dropped, steps, last_gained, result>>
vars == <<tracker, channel, locks, threads, desktop, observed>>

\* ------------------------------------------------------------ configuration
\* FocusTrackerConfig: the fields the tracker reads
MkConfig(meta, sys, tabs, excl, incl) ==
    [includeMetadata |-> meta, includeSystemApps |-> sys,
     enableBrowserTabTracking |-> tabs,
     excludedApps |-> excl, includedApps |-> incl]

\* a default-constructed FocusTrackerConfig
DefaultConfig == MkConfig(FALSE, FALSE, FALSE, {}, {})

\* configurations without an include/exclude list
PlainConfigs ==
    { MkConfig(TRUE, FALSE, TRUE, {}, {}) }

\* configurations that differ in includeSystemApps only
FilterConfigs ==
    { MkConfig(FALSE, sys, FALSE, {}, {}) : sys \in BOOLEAN }

\* configurations that differ in includeMetadata and enableBrowserTabTracking
TabConfigs ==
    { MkConfig(meta, FALSE, tabs, {}, {}) : meta \in BOOLEAN, tabs \in BOOLEAN }

\* the configurations startTracking is called with
Configs ==
    PlainConfigs \cup
    { MkConfig(TRUE, FALSE, TRUE, {EditorPath}, {}),
      MkConfig(TRUE, FALSE, TRUE, {}, {EditorPath}) }

\* the method-call arguments of startTracking, as EncodableValues: holds is
\* the alternative the value holds, map its entries when it holds a map
NullValue == [holds |-> "null", map |-> <<>>]
IntValue == [holds |-> "int", map |-> <<>>]
MapValue(entries) == [holds |-> "map", map |-> entries]

\* the map a Dart FocusTrackerConfig is sent as
ToMap(cfg) == MapValue(cfg)

\* well-formed arguments: {"config": <map>}
ValidArguments(cfgs) == { MapValue([config |-> ToMap(cfg)]) : cfg \in cfgs }

\* no arguments, arguments that are no map, a map without "config", and a
\* "config" that is no map
InvalidArguments ==
    { NullValue, IntValue, MapValue([other |-> IntValue]),
      MapValue([config |-> IntValue]) }

\* HandleMethodCall("startTracking"): the two tests that guard the call of
\* StartTracking
HasConfigMap_AnyConfig(arguments) ==
    /\ arguments.holds = "map"
    /\ "config" \in DOMAIN arguments.map

HasConfigMap(arguments) ==
    /\ arguments.holds = "map"
    /\ "config" \in DOMAIN arguments.map
    /\ arguments.map.config.holds = "map"

\* FocusTrackerConfig::FromMap: a key the map lacks keeps its default
FromMap(config_map) ==
    [k \in DOMAIN DefaultConfig |->
        IF k \in DOMAIN config_map THEN config_map[k] ELSE DefaultConfig[k]]

\* ------------------------------------------------------------ pure helpers
NoSink == 0
\* no "gained" event in the run so far
NoGained == <<>>
\* a mutex no thread holds
Unlocked == "free"
Sinks == {1}
\* a consumer whose Success throws for the events with an odd id
FaultySink == 2
ChannelSinks == Sinks \cup {FaultySink}
Throws(sink, event) == sink = FaultySink /\ event.eventId % 2 = 1
NoSession == 0
NoDur == 0 - (MaxTime + 2)

EmptyMap == [p \in {} |-> EmptyString]
MapPut(m, k, v) == [p \in (DOMAIN m) \cup {k} |-> IF p = k THEN v ELSE m[p]]

\* a comparison that takes every poll for a tab change
TabChanged_Always(stored, current_tab_info) == TRUE

\* CheckForBrowserTabChanges: last_tab_it->second != current_tab_info
TabChanged(stored, current_tab_info) == stored # current_tab_info

\* a clear() that leaves the map as it is
Cleared_Kept(tab_info_map) == tab_info_map

\* last_browser_tab_info_.clear()
Cleared(tab_info_map) == EmptyMap

Last(s) == s[Len(s)]

\* ProcessInfo of a window: GetWindowThreadProcessId leaves processId 0 for a
\* null window, and nothing else is filled in then
GetProcessInfoFromWindow(hwnd, window_text) ==
    IF hwnd \in {NullHwnd, StaleWindow}
    THEN [processId |-> 0, executablePath |-> EmptyString,
          processName |-> "", windowTitle |-> EmptyString]
    ELSE IF hwnd \in {BrowserWindow, SecondBrowserWindow}
    THEN [processId |-> 2, executablePath |-> BrowserPath,
          processName |-> Last(BrowserPath), windowTitle |-> window_text]
    ELSE IF hwnd = OwnWindow
    THEN [processId |-> 3, executablePath |-> OwnPath,
          processName |-> Last(OwnPath), windowTitle |-> OwnTitle]
    ELSE IF hwnd = SystemWindow
    THEN [processId |-> 4, executablePath |-> SystemPath,
          processName |-> Last(SystemPath), windowTitle |-> SystemTitle]
    ELSE [processId |-> 1, executablePath |-> EditorPath,
          processName |-> Last(EditorPath), windowTitle |-> EditorTitle]

\* GetWindowTextW on a window of the own process sends WM_GETTEXT to the
\* thread that owns the window: called on another thread it returns only
\* once the platform thread is back in its message loop
WindowTextReady(thread, hwnd) ==
    hwnd # OwnWindow \/ thread = "P" \/ pcP = "idle"

kBrowserExecutables ==
    {"chrome.exe", "msedge.exe", "firefox.exe", "brave.exe", "opera.exe",
     "safari.exe", "chromium.exe"}
\* path components holding one of the substrings of the fallback test
BrowserKeyComponents == {"Google", "chrome.exe"}

IsBrowserProcess(process_name, executable_path) ==
    \/ process_name \in kBrowserExecutables
    \/ \E i \in 1..Len(executable_path) :
          executable_path[i] \in BrowserKeyComponents

\* the page title is the window title without the " - Google Chrome" suffix
\* (the pattern needs a non-empty page title in front of it)
PageTitle(window_title) ==
    LET n == Len(window_title) IN
    IF n > 2 /\ SubSeq(window_title, n - 1, n) = ChromeSuffix
    THEN SubSeq(window_title, 1, n - 2)
    ELSE window_title

RECURSIVE FirstDomain(_)
FirstDomain(toks) ==
    IF toks = <<>> THEN EmptyString
    ELSE IF Head(toks) \in DomainTokens THEN <<Head(toks)>>
    ELSE FirstDomain(Tail(toks))

ExtractBrowserTabInfo(window_title, process_name) ==
    LET page == PageTitle(window_title)
        dom  == FirstDomain(page) IN
    [domain |-> dom,
     url    |-> IF dom = EmptyString THEN EmptyString ELSE <<"https://">> \o dom,
     title  |-> page,
     valid  |-> dom # EmptyString]

\* the title without digits, '.' and ','
SanitizedTitle(raw_title) == SelectSeq(raw_title, LAMBDA c : c \notin VolatileTokens)

\* a key that is always the raw window title
ComparisonKey_RawTitle(tab_info, window_title) == window_title

\* the comparison key of CheckForBrowserTabChanges
ComparisonKey(tab_info, window_title) ==
    IF tab_info.domain # EmptyString THEN tab_info.domain
    ELSE IF tab_info.url # EmptyString THEN tab_info.url
    ELSE IF tab_info.title # EmptyString THEN SanitizedTitle(tab_info.title)
    ELSE window_title

\* processId of a default-initialised AppInfo is indeterminate
IndeterminatePids == {0, 9}

\* CreateAppInfo(hwnd): the possible results (identifier, processId)
CreateAppInfo(hwnd) ==
    IF hwnd = NullHwnd
    THEN { [identifier |-> EmptyString, processId |-> p] : p \in IndeterminatePids }
    ELSE LET proc_info == GetProcessInfoFromWindow(hwnd, EmptyString) IN
         { [identifier |-> proc_info.executablePath,
            processId |-> proc_info.processId] }

system_apps == {"dwm.exe", "explorer.exe", "winlogon.exe", "csrss.exe", "smss.exe"}

FileName(identifier) ==
    IF identifier = EmptyString THEN "" ELSE Last(identifier)

\* a filter without the test of the system applications
ShouldTrackApp_NoDenylist(app_info) ==
    IF app_info.identifier \in config_.excludedApps THEN FALSE
    ELSE IF config_.includedApps # {} /\ app_info.identifier \notin config_.includedApps
    THEN FALSE
    ELSE TRUE

ShouldTrackApp(app_info) ==
    IF app_info.identifier \in config_.excludedApps THEN FALSE
    ELSE IF config_.includedApps # {} /\ app_info.identifier \notin config_.includedApps
    THEN FALSE
    ELSE IF ~config_.includeSystemApps /\ FileName(app_info.identifier) \in system_apps
    THEN FALSE
    ELSE TRUE

\* a thread test that takes every caller for the platform thread
IsOnPlatformThread_Always(thread) == TRUE

IsOnPlatformThread(thread) == thread = "P"

\* trimming that keeps the oldest entries and discards the new ones
DropNewest(q) == IF Len(q) > kMaxQueueSize THEN SubSeq(q, 1, kMaxQueueSize) ELSE q

\* drop-oldest trimming of QueueEvent
RECURSIVE DropOldest(_)
DropOldest(q) == IF Len(q) > kMaxQueueSize THEN DropOldest(Tail(q)) ELSE q

Clamp(n) == IF n > 2 THEN 2 ELSE IF n < 0 - 2 THEN 0 - 2 ELSE n

\* ------------------------------------------------------ the event stream
\* an event that leaves the session id empty
MkEvent_NoSession(app_info, event_type, duration_microseconds, event_id) ==
    [eventType |-> event_type,
     appIdentifier |-> app_info.identifier,
     processId |-> app_info.processId,
     durationMicroseconds |-> duration_microseconds,
     sessionId |-> NoSession,
     eventId |-> event_id]

\* SendFocusEvent: the fields of the event map
MkEvent(app_info, event_type, duration_microseconds, event_id) ==
    [eventType |-> event_type,
     appIdentifier |-> app_info.identifier,
     processId |-> app_info.processId,
     durationMicroseconds |-> duration_microseconds,
     sessionId |-> session_id_,
     eventId |-> event_id]

Delta(o) ==
    IF o = <<>> THEN 0
    ELSE IF o[1].event.eventType = "gained" THEN 1
    ELSE IF o[1].event.eventType = "lost" THEN 0 - 1
    ELSE 0

NumberedIds(invocations) ==
    LET numbered == SelectSeq(invocations, LAMBDA c : c.event.eventId # 0) IN
    [i \in 1..Len(numbered) |-> numbered[i].event.eventId]

\* bookkeeping of the event observations, part of every step
ObserveEvents ==
    /\ balance' = Clamp(balance + Delta(out'))
    /\ prevUpd' = IF out = <<>> THEN prevUpd
                  ELSE IF out[1].event.eventType = "durationUpdate"
                  THEN out[1].event.durationMicroseconds
                  ELSE NoDur
    /\ run_emitted' = IF session_id_' # session_id_ THEN 0
                      ELSE IF run_emitted + Len(out') > 2 THEN 2
                      ELSE run_emitted + Len(out')
    /\ delivered' = delivered \o NumberedIds(cb')
    /\ last_gained' =
          IF out' # <<>> /\ out'[1].event.eventType = "gained"
          THEN <<out'[1].event.processId, out'[1].event.appIdentifier>>
          ELSE IF session_id_' # session_id_ THEN NoGained
          ELSE last_gained
    /\ steps' = steps + 1

\* a step that completes a method call with the answer r; it takes the
\* mutexes it needs and has released them at its end
ObserveResult(r) == ObserveEvents /\ result' = r /\ UNCHANGED locks

\* a step that completes no method call
Observe == ObserveResult("none")

\* a step that hands nothing to QueueEvent
NoEvent ==
    /\ out' = <<>>
    /\ cb' = <<>>
    /\ UNCHANGED <<event_queue_, flush_msgs, retry_timer, dropped>>

\* the tail of QueueEvent: PostMessage to the message window, and the retry
\* timer when it fails
PostFlushMessage ==
    IF ~message_window_
    THEN UNCHANGED <<flush_msgs, retry_timer>>
    ELSE IF flush_msgs < MaxFlushMsgs
    THEN flush_msgs' = flush_msgs + 1 /\ UNCHANGED retry_timer
    ELSE /\ UNCHANGED flush_msgs
         /\ \E timer_set \in BOOLEAN : retry_timer' = (retry_timer \/ timer_set)

\* an enqueue that keeps the event only when the flush message can be posted
EnqueueEvent_DiscardUnsignalled(event) ==
    LET pushed == Append(event_queue_, event)
        kept   == DropOldest(pushed)
        posts  == message_window_ /\ flush_msgs < MaxFlushMsgs IN
    /\ event_queue_' = IF posts THEN kept ELSE event_queue_
    /\ dropped' = dropped \cup
          ({ pushed[i].eventId : i \in 1..(Len(pushed) - Len(kept)) } \ {0})
    /\ cb' = <<>>
    /\ PostFlushMessage

EnqueueEvent(event) ==
    LET pushed == Append(event_queue_, event)
        kept   == DropOldest(pushed) IN
    /\ event_queue_' = kept
    /\ dropped' = dropped \cup
          ({ pushed[i].eventId : i \in 1..(Len(pushed) - Len(kept)) } \ {0})
    /\ cb' = <<>>
    /\ PostFlushMessage

\* a direct send that goes through the queue instead
SendEventDirectly_Queued(thread, event) == EnqueueEvent(event)

\* SendEventDirectly: the callback is invoked under event_sink_mutex_, a
\* null sink drops the event
SendEventDirectly(thread, event) ==
    /\ cb' = IF event_sink_ # NoSink
             THEN <<[event |-> event, thread |-> thread, sink |-> event_sink_]>>
             ELSE <<>>
    /\ UNCHANGED <<event_queue_, flush_msgs, retry_timer, dropped>>

QueueEvent(thread, event) ==
    /\ out' = <<[event |-> event, thread |-> thread]>>
    /\ IF IsOnPlatformThread(thread)
       THEN SendEventDirectly(thread, event)
       ELSE EnqueueEvent(event)

SendFocusEvent(thread, app_info, event_type, duration_microseconds) ==
    IF ~ShouldTrackApp(app_info)
    THEN NoEvent
    ELSE QueueEvent(thread, MkEvent(app_info, event_type, duration_microseconds, 0))

\* ---------------------------------------------------------------- locals
IdleP == [hwnd |-> NullHwnd, pid |-> 0, current_time |-> 0]
IdleU == [current_time |-> 0]
IdleB == [current_time |-> 0, identifier |-> EmptyString, pid |-> 0,
          window_title |-> EmptyString, key |-> EmptyString]

\* the process is alive (and the explored interleaving may go on)
Running == pcP # "crashed" /\ steps < MaxSteps

\* ------------------------------------------------------------------ Init
\* the members after the constructor's initialisers: not tracking, no session
InitMembers ==
    /\ is_tracking_ = FALSE
    /\ current_process_id_ = 0
    /\ current_focused_window_ = NullHwnd
    /\ focus_start_time_ = 0
    /\ session_id_ = NoSession
    /\ config_ = DefaultConfig
    /\ g_event_hook = FALSE
    /\ last_browser_tab_info_ = EmptyMap
    /\ event_queue_ = <<>>
    /\ event_sink_mutex_ = Unlocked /\ event_queue_mutex_ = Unlocked
    /\ local_queue = <<>>
    /\ pcP = "idle" /\ locP = IdleP
    /\ pcU = "none" /\ locU = IdleU
    /\ pcB = "none" /\ locB = IdleB
    /\ flush_msgs = 0
    /\ retry_timer = FALSE
    /\ now = 0
    /\ out = <<>> /\ cb = <<>>
    /\ balance = 0 /\ prevUpd = NoDur /\ run_emitted = 0 /\ sessions = 0
    /\ next_event_id = 1 /\ delivered = <<>> /\ dropped = {}
    /\ steps = 0
    /\ last_gained = NoGained
    /\ result = "none"

\* the plugin after its constructor, CreateMessageWindow having succeeded
InitPlugin == InitMembers /\ message_window_ = TRUE

\* no consumer is registered yet
Init == InitPlugin /\ event_sink_ = NoSink

\* ------------------------------------------------------- platform thread
\* a start that never takes the tracker for running
StartTracking_NeverTracking == FALSE

\* StartTracking: if (is_tracking_) return;
StartTracking_AlreadyTracking == is_tracking_

StopTracking_NeverReturnsEarly == FALSE

\* StopTracking: if (!is_tracking_) return;
StopTracking_NotTracking == ~is_tracking_

\* StartTracking past its guard: the session, the hook, the two threads,
\* then SendCurrentFocusEvent; a hook that could not be installed stops
\* nothing
StartTracking_AbortWithoutHook(cfg, hooked) ==
    /\ sessions < MaxRuns
    /\ sessions' = sessions + 1
    /\ g_event_hook' = hooked
    /\ IF hooked
       THEN /\ is_tracking_' = TRUE
            /\ session_id_' = sessions + 1
            /\ pcU' = "loop"
            /\ pcB' = IF cfg.includeMetadata /\ cfg.enableBrowserTabTracking
                      THEN "loop" ELSE pcB
            /\ pcP' = "start_focus"
       ELSE UNCHANGED <<is_tracking_, session_id_, pcU, pcB, pcP>>

StartTracking_Run(cfg, hooked) ==
    /\ sessions < MaxRuns
    /\ is_tracking_' = TRUE
    /\ sessions' = sessions + 1
    /\ session_id_' = sessions + 1
    /\ g_event_hook' = hooked
    /\ pcU' = "loop"
    /\ pcB' = IF cfg.includeMetadata /\ cfg.enableBrowserTabTracking
              THEN "loop" ELSE pcB
    /\ pcP' = "start_focus"

\* HandleMethodCall("startTracking"): arguments without a configuration map
\* are answered INVALID_ARGS; otherwise config_ is assigned before
\* StartTracking tests is_tracking_
HandleMethodCall_startTracking(arguments) ==
    /\ Running /\ pcP = "idle"
    /\ NoEvent
    /\ IF ~HasConfigMap(arguments)
       THEN /\ UNCHANGED <<config_, is_tracking_, session_id_, g_event_hook,
                           sessions, pcP, pcU, pcB>>
            /\ ObserveResult("INVALID_ARGS")
       ELSE LET cfg == FromMap(arguments.map.config.map) IN
            /\ config_' = cfg
            /\ IF StartTracking_AlreadyTracking
               THEN /\ UNCHANGED <<is_tracking_, session_id_, g_event_hook,
                                   sessions, pcP, pcU, pcB>>
                    /\ ObserveResult("success")
               ELSE /\ \E hooked \in BOOLEAN : StartTracking_Run(cfg, hooked)
                    /\ Observe
    /\ UNCHANGED <<current_process_id_, current_focused_window_, focus_start_time_,
                   last_browser_tab_info_, event_sink_, message_window_,
                   locP, locU, locB, desktop, next_event_id>>

\* startTracking called with a configuration of cfgs, or with arguments that
\* carry none
HandleStartTracking(cfgs) ==
    \E arguments \in ValidArguments(cfgs) \cup InvalidArguments :
        HandleMethodCall_startTracking(arguments)

\* SendCurrentFocusEvent up to the assignment of current_focused_window_
SendCurrentFocusEvent_Resolve ==
    /\ Running /\ pcP = "start_focus"
    /\ \E hwnd \in ForegroundWindows :
       LET proc_info == GetProcessInfoFromWindow(hwnd, EmptyString) IN
       IF hwnd = NullHwnd \/ proc_info.processId = 0
       THEN /\ pcP' = "idle"
            /\ result' = "success"
            /\ UNCHANGED <<current_process_id_, current_focused_window_, locP>>
       ELSE /\ current_process_id_' = proc_info.processId
            /\ current_focused_window_' = hwnd
            /\ locP' = [IdleP EXCEPT !.hwnd = hwnd]
            /\ pcP' = "start_stamp"
            /\ result' = "none"
    /\ NoEvent
    /\ UNCHANGED <<is_tracking_, focus_start_time_, session_id_, config_,
                   g_event_hook, last_browser_tab_info_, event_sink_,
                   message_window_, pcU, locU, pcB, locB, desktop,
                   sessions, next_event_id>>
    /\ ObserveEvents /\ UNCHANGED locks

\* focus_start_time_ = steady_clock::now()
SendCurrentFocusEvent_Stamp ==
    /\ Running /\ pcP = "start_stamp"
    /\ focus_start_time_' = now
    /\ pcP' = "start_emit"
    /\ NoEvent
    /\ UNCHANGED <<is_tracking_, current_process_id_, current_focused_window_,
                   session_id_, config_, g_event_hook, last_browser_tab_info_,
                   event_sink_, message_window_, locP, pcU, locU,
                   pcB, locB, desktop, sessions, next_event_id>>
    /\ Observe

\* CreateAppInfo(hwnd) and SendFocusEvent(app_info, "gained", 0)
SendCurrentFocusEvent_Emit ==
    /\ Running /\ pcP = "start_emit"
    /\ \E app_info \in CreateAppInfo(locP.hwnd) :
          SendFocusEvent("P", app_info, "gained", 0)
    /\ pcP' = "idle" /\ locP' = IdleP
    /\ UNCHANGED <<tracker, event_sink_, message_window_,
                   pcU, locU, pcB, locB, desktop, sessions, next_event_id>>
    /\ ObserveResult("success")

\* StopTracking up to the join of update_timer_
StopTracking_Begin ==
    /\ Running /\ pcP = "idle"
    /\ IF StopTracking_NotTracking
       THEN /\ UNCHANGED <<is_tracking_, event_queue_, g_event_hook, pcP>>
            /\ result' = "success"
       ELSE /\ is_tracking_' = FALSE
            /\ event_queue_' = <<>>
            /\ g_event_hook' = FALSE
            /\ pcP' = "stop_join_update"
            /\ result' = "none"
    /\ out' = <<>> /\ cb' = <<>>
    /\ UNCHANGED <<current_process_id_, current_focused_window_, focus_start_time_,
                   session_id_, config_, last_browser_tab_info_, event_sink_,
                   message_window_, flush_msgs, retry_timer, dropped,
                   locP, pcU, locU, pcB, locB, desktop, sessions, next_event_id>>
    /\ ObserveEvents /\ UNCHANGED locks

\* a join that does not wait for the thread to end
Joined_NoWait(pc) == TRUE

\* joinable() and join(): the caller goes on when the thread has ended, or
\* at once when the handle holds no thread
Joined(pc) == pc \in {"done", "none"}

\* update_timer_.join()
StopTracking_JoinUpdate ==
    /\ Running /\ pcP = "stop_join_update"
    /\ Joined(pcU)
    /\ pcU' = "none"
    /\ pcP' = "stop_join_tab"
    /\ NoEvent
    /\ UNCHANGED <<tracker, event_sink_, message_window_,
                   locP, locU, pcB, locB, desktop, sessions, next_event_id>>
    /\ Observe

\* StopBrowserTabTracking, the final "lost" and the reset of the session
StopTracking_Finish ==
    /\ Running /\ pcP = "stop_join_tab"
    /\ Joined(pcB)
    /\ pcB' = "none"
    /\ last_browser_tab_info_' = Cleared(last_browser_tab_info_)
    /\ IF current_process_id_ # 0
       THEN \E hwnd \in ForegroundWindows :
            \E app_info \in CreateAppInfo(hwnd) :
               SendFocusEvent("P", app_info, "lost", now - focus_start_time_)
       ELSE NoEvent
    /\ current_process_id_' = 0
    /\ session_id_' = NoSession
    /\ pcP' = "idle"
    /\ UNCHANGED <<is_tracking_, current_focused_window_, focus_start_time_,
                   config_, g_event_hook, event_sink_, message_window_,
                   locP, pcU, locU, locB, desktop, sessions,
                   next_event_id>>
    /\ ObserveResult("success")

\* OnWindowFocusChanged: the two tests that let a notification through
Resolves_NonNull(hwnd) == hwnd # NullHwnd

Resolves(hwnd) ==
    /\ hwnd # NullHwnd
    /\ GetProcessInfoFromWindow(hwnd, EmptyString).processId # 0

\* OnWindowFocusChanged: current_process_id_ != proc_info.processId
ProcessChanged_Always(process_id) == TRUE

ProcessChanged_Never(process_id) == FALSE

ProcessChanged(process_id) == current_process_id_ # process_id

\* a handler that goes on for every window that resolves
FocusChangeIgnored_Unresolved(hwnd) == ~Resolves(hwnd)

\* OnWindowFocusChanged: if (!is_tracking_ || !hwnd) return; and the return
\* for processId 0
FocusChangeIgnored(hwnd) == ~is_tracking_ \/ ~Resolves(hwnd)

\* OnWindowFocusChanged(hwnd) up to current_time = steady_clock::now()
OnWindowFocusChanged_Handle(hwnd) ==
    /\ Running /\ pcP = "idle"
    /\ LET proc_info == GetProcessInfoFromWindow(hwnd, EmptyString) IN
       IF FocusChangeIgnored(hwnd)
       THEN UNCHANGED <<pcP, locP>>
       ELSE /\ locP' = [hwnd |-> hwnd, pid |-> proc_info.processId,
                        current_time |-> now]
            /\ pcP' = "focus_lost"
    /\ NoEvent
    /\ UNCHANGED <<tracker, event_sink_, message_window_,
                   pcU, locU, pcB, locB, desktop, sessions, next_event_id>>
    /\ Observe

\* WinEventProc called by the installed hook
OnWindowFocusChanged_Begin(hwnd) ==
    g_event_hook /\ OnWindowFocusChanged_Handle(hwnd)

\* WinEventProc called for a notification that was under way when
\* UnhookWinEvent removed the hook
OnWindowFocusChanged_Late ==
    \E hwnd \in HookedWindows :
       /\ ~g_event_hook /\ ~is_tracking_ /\ sessions > 0
       /\ OnWindowFocusChanged_Handle(hwnd)

\* WinEventProc: a foreground-change notification for some window
OnWindowFocusChanged_Enter ==
    \E hwnd \in HookedWindows : OnWindowFocusChanged_Begin(hwnd)

\* WinEventProc: a foreground-change notification for a window of the shell
OnWindowFocusChanged_System == OnWindowFocusChanged_Begin(SystemWindow)

\* WinEventProc: a foreground-change notification for the browser's second
\* window
OnWindowFocusChanged_SecondWindow ==
    OnWindowFocusChanged_Begin(SecondBrowserWindow)

\* the "lost" for the previous application
OnWindowFocusChanged_Lost ==
    /\ Running /\ pcP = "focus_lost"
    /\ IF current_process_id_ # 0 /\ ProcessChanged(locP.pid)
       THEN \E app_info \in CreateAppInfo(current_focused_window_) :
               SendFocusEvent("P", app_info, "lost",
                              locP.current_time - focus_start_time_)
       ELSE NoEvent
    /\ pcP' = "focus_gained"
    /\ UNCHANGED <<tracker, event_sink_, message_window_, locP,
                   pcU, locU, pcB, locB, desktop, sessions, next_event_id>>
    /\ Observe

\* the update of the session and the "gained" for the new application
OnWindowFocusChanged_Gained ==
    /\ Running /\ pcP = "focus_gained"
    /\ IF ProcessChanged(locP.pid)
       THEN /\ current_process_id_' = locP.pid
            /\ current_focused_window_' = locP.hwnd
            /\ focus_start_time_' = locP.current_time
            /\ \E app_info \in CreateAppInfo(locP.hwnd) :
                  SendFocusEvent("P", app_info, "gained", 0)
       ELSE /\ UNCHANGED <<current_process_id_, current_focused_window_,
                           focus_start_time_>>
            /\ NoEvent
    /\ pcP' = "idle" /\ locP' = IdleP
    /\ UNCHANGED <<is_tracking_, session_id_, config_, g_event_hook,
                   last_browser_tab_info_, event_sink_, message_window_,
                   pcU, locU, pcB, locB, desktop, sessions,
                   next_event_id>>
    /\ Observe

\* a flush that hands the events over newest first
FlushEventQueue_Lifo(queue) ==
    IF event_sink_ # NoSink
    THEN [i \in 1..Len(queue) |->
             [event |-> queue[Len(queue) + 1 - i], thread |-> "P",
              sink |-> event_sink_]]
    ELSE <<>>

\* a flush that an exception of the callback ends
FlushEventQueue_StopAtFault(queue) ==
    LET faults == { i \in 1..Len(queue) : Throws(event_sink_, queue[i]) }
        n == IF faults = {} THEN Len(queue)
             ELSE CHOOSE i \in faults : \A j \in faults : i <= j IN
    IF event_sink_ # NoSink
    THEN [i \in 1..n |->
             [event |-> queue[i], thread |-> "P", sink |-> event_sink_]]
    ELSE <<>>

\* FlushEventQueue: the queue is swapped out under event_queue_mutex_, then
\* each event is handed to the sink (or discarded when there is none); what
\* Success throws is caught inside the loop body, event by event
FlushEventQueue(queue) ==
    IF event_sink_ # NoSink
    THEN [i \in 1..Len(queue) |->
             [event |-> queue[i], thread |-> "P", sink |-> event_sink_]]
    ELSE <<>>

\* MessageWndProc(kFlushMessageId)
MessageWndProc ==
    /\ Running /\ pcP = "idle" /\ flush_msgs > 0
    /\ flush_msgs' = flush_msgs - 1
    /\ cb' = FlushEventQueue(event_queue_)
    /\ event_queue_' = <<>>
    /\ out' = <<>>
    /\ UNCHANGED <<tracker, event_sink_, message_window_, retry_timer, dropped,
                   threads, desktop, sessions, next_event_id>>
    /\ Observe

\* relocking event_sink_mutex_ on the thread that holds it is undefined:
\* the thread blocks for ever, or the lock throws and the process ends
RelockOutcomes == {"hung", "crashed"}

\* OnListenInternal: FlushEventQueue is called with event_sink_mutex_ held
OnListenInternal ==
    /\ Running /\ pcP = "idle"
    /\ \E s \in Sinks \ {event_sink_} : event_sink_' = s
    /\ IF event_queue_ = <<>>
       THEN UNCHANGED <<event_queue_, pcP>>
       ELSE /\ event_queue_' = <<>>
            /\ \E outcome \in RelockOutcomes : pcP' = outcome
    /\ out' = <<>> /\ cb' = <<>>
    /\ UNCHANGED <<tracker, message_window_, flush_msgs, retry_timer, dropped,
                   locP, pcU, locU, pcB, locB, desktop, sessions, next_event_id>>
    /\ Observe

OnCancelInternal ==
    /\ Running /\ pcP = "idle"
    /\ event_sink_ # NoSink
    /\ event_sink_' = NoSink
    /\ NoEvent
    /\ UNCHANGED <<tracker, message_window_,
                   threads, desktop, sessions, next_event_id>>
    /\ Observe

\* TimerCallbackHelper::TimerProc: the one retry of PostMessage
TimerProc ==
    /\ Running /\ pcP = "idle" /\ retry_timer
    /\ retry_timer' = FALSE
    /\ flush_msgs' = IF flush_msgs < MaxFlushMsgs THEN flush_msgs + 1 ELSE flush_msgs
    /\ out' = <<>> /\ cb' = <<>>
    /\ UNCHANGED <<tracker, event_queue_, event_sink_, message_window_,
                   dropped, threads, desktop, sessions, next_event_id>>
    /\ Observe

\* ----------------------------------------------------------- update_timer_
\* a test that takes every session for open
NoOpenSession_Never == FALSE

\* SendPeriodicUpdate: current_process_id_ == 0
NoOpenSession == current_process_id_ = 0

\* the loop test and SendPeriodicUpdate up to current_time = now()
UpdateTimer_Loop ==
    /\ Running /\ pcU = "loop"
    /\ IF ~is_tracking_
       THEN pcU' = "done" /\ UNCHANGED locU
       ELSE IF NoOpenSession
       THEN UNCHANGED <<pcU, locU>>
       ELSE pcU' = "update_emit" /\ locU' = [current_time |-> now]
    /\ NoEvent
    /\ UNCHANGED <<tracker, event_sink_, message_window_,
                   pcP, locP, pcB, locB, desktop, sessions, next_event_id>>
    /\ Observe

\* the duration, CreateAppInfo(current_focused_window_) and SendFocusEvent
SendPeriodicUpdate_Emit ==
    /\ Running /\ pcU = "update_emit"
    /\ WindowTextReady("U", current_focused_window_)
    /\ \E app_info \in CreateAppInfo(current_focused_window_) :
          SendFocusEvent("U", app_info, "durationUpdate",
                         locU.current_time - focus_start_time_)
    /\ pcU' = "loop" /\ locU' = IdleU
    /\ UNCHANGED <<tracker, event_sink_, message_window_,
                   pcP, locP, pcB, locB, desktop, sessions, next_event_id>>
    /\ Observe

\* ------------------------------------------------- browser_tab_check_timer_
\* the loop test and CheckForBrowserTabChanges up to the call of
\* SendBrowserTabChangeEvent and its current_time = now(), the focused
\* window showing window_text when it is the browser's
CheckForBrowserTabChanges(window_text) ==
    /\ Running /\ pcB = "loop"
    /\ LET hwnd == current_focused_window_
           proc_info == GetProcessInfoFromWindow(hwnd, window_text)
           tab_info == ExtractBrowserTabInfo(proc_info.windowTitle,
                                             proc_info.processName)
           current_tab_info == ComparisonKey(tab_info, proc_info.windowTitle)
           path == proc_info.executablePath
       IN
       IF ~is_tracking_
       THEN pcB' = "done" /\ UNCHANGED <<locB, last_browser_tab_info_>>
       ELSE IF current_process_id_ = 0 \/ hwnd = NullHwnd
       THEN UNCHANGED <<pcB, locB, last_browser_tab_info_>>
       ELSE IF ~WindowTextReady("B", hwnd)
       THEN FALSE
       ELSE IF proc_info.processId = 0
       THEN UNCHANGED <<pcB, locB, last_browser_tab_info_>>
       ELSE IF ~IsBrowserProcess(proc_info.processName, path)
       THEN /\ last_browser_tab_info_' = Cleared(last_browser_tab_info_)
            /\ UNCHANGED <<pcB, locB>>
       ELSE IF path \notin DOMAIN last_browser_tab_info_
       THEN /\ last_browser_tab_info_' =
                   MapPut(last_browser_tab_info_, path, current_tab_info)
            /\ UNCHANGED <<pcB, locB>>
       ELSE IF ~TabChanged(last_browser_tab_info_[path], current_tab_info)
       THEN UNCHANGED <<pcB, locB, last_browser_tab_info_>>
       ELSE /\ locB' = [current_time |-> now, identifier |-> path,
                        pid |-> proc_info.processId,
                        window_title |-> proc_info.windowTitle,
                        key |-> current_tab_info]
            /\ pcB' = "tab_lost"
            /\ UNCHANGED last_browser_tab_info_
    /\ NoEvent
    /\ UNCHANGED <<is_tracking_, current_process_id_, current_focused_window_,
                   focus_start_time_, session_id_, config_, g_event_hook,
                   event_sink_, message_window_,
                   pcP, locP, pcU, locU, desktop, sessions, next_event_id>>
    /\ Observe

\* the loop of browser_tab_check_timer_ with the title the window shows
BrowserTabTimer_Loop ==
    \E window_text \in BrowserTitles : CheckForBrowserTabChanges(window_text)

\* SendBrowserTabChangeEvent: the duration and the "lost" for the old tab
SendBrowserTabChangeEvent_Lost ==
    /\ Running /\ pcB = "tab_lost"
    /\ SendFocusEvent("B", [identifier |-> locB.identifier, processId |-> locB.pid],
                      "lost", locB.current_time - focus_start_time_)
    /\ pcB' = "tab_gained"
    /\ UNCHANGED <<tracker, event_sink_, message_window_,
                   pcP, locP, pcU, locU, locB, desktop, sessions, next_event_id>>
    /\ Observe

\* a tab change that leaves the start of the session where it was
TabFocusStart_Kept(current_time) == focus_start_time_

\* SendBrowserTabChangeEvent: focus_start_time_ = current_time
TabFocusStart(current_time) == current_time

\* SendBrowserTabChangeEvent: the reset of focus_start_time_ and the "gained",
\* then the store of the new key
SendBrowserTabChangeEvent_Gained ==
    /\ Running /\ pcB = "tab_gained"
    /\ focus_start_time_' = TabFocusStart(locB.current_time)
    /\ SendFocusEvent("B", [identifier |-> locB.identifier, processId |-> locB.pid],
                      "gained", 0)
    /\ last_browser_tab_info_' =
          MapPut(last_browser_tab_info_, locB.identifier, locB.key)
    /\ pcB' = "loop" /\ locB' = IdleB
    /\ UNCHANGED <<is_tracking_, current_process_id_, current_focused_window_,
                   session_id_, config_, g_event_hook,
                   event_sink_, message_window_,
                   pcP, locP, pcU, locU, desktop, sessions, next_event_id>>
    /\ Observe

\* --------------------------------------------------------------- the clock
\* steady_clock advances
Tick ==
    /\ Running /\ now < MaxTime
    /\ now' = now + 1
    /\ NoEvent
    /\ UNCHANGED <<tracker, event_sink_, message_window_,
                   threads, sessions, next_event_id>>
    /\ Observe

\* ------------------------------------------------ the channel on its own
\* the numbered event a producer hands to QueueEvent
ChannelEvent(event_id) ==
    MkEvent([identifier |-> EditorPath, processId |-> 1], "durationUpdate", 0,
            event_id)

\* QueueEvent called on a background thread
QueueEvent_Background ==
    /\ Running /\ next_event_id <= MaxEventId
    /\ \E thread \in {"U", "B"} :
          QueueEvent(thread, ChannelEvent(next_event_id))
    /\ next_event_id' = next_event_id + 1
    /\ UNCHANGED <<tracker, event_sink_, message_window_, threads, desktop,
                   sessions>>
    /\ Observe

\* QueueEvent called on the platform thread
QueueEvent_Platform ==
    /\ Running /\ pcP = "idle"
    /\ QueueEvent("P", ChannelEvent(0))
    /\ UNCHANGED <<tracker, event_sink_, message_window_, threads, desktop,
                   sessions, next_event_id>>
    /\ Observe

\* ---------------------------------------------------------- specification
StartTracking == HandleStartTracking(Configs)
StartTrackingPlain == HandleStartTracking(PlainConfigs)

TrackerSteps ==
    \/ SendCurrentFocusEvent_Resolve
    \/ SendCurrentFocusEvent_Stamp
    \/ SendCurrentFocusEvent_Emit
    \/ StopTracking_Begin
    \/ StopTracking_JoinUpdate
    \/ StopTracking_Finish
    \/ OnWindowFocusChanged_Enter
    \/ OnWindowFocusChanged_Lost
    \/ OnWindowFocusChanged_Gained
    \/ MessageWndProc
    \/ OnListenInternal
    \/ OnCancelInternal
    \/ TimerProc
    \/ UpdateTimer_Loop
    \/ SendPeriodicUpdate_Emit
    \/ BrowserTabTimer_Loop
    \/ SendBrowserTabChangeEvent_Lost
    \/ SendBrowserTabChangeEvent_Gained
    \/ Tick

Next == StartTracking \/ TrackerSteps

Spec == Init /\ [][Next]_vars

NextPlain == StartTrackingPlain \/ TrackerSteps

SpecPlain == Init /\ [][NextPlain]_vars

\* start, stop, focus changes and the two background threads, each thread
\* scheduled fairly: a background thread that can take its next step takes
\* it, and so does a join whose thread has ended
NextStop ==
    \/ StartTrackingPlain
    \/ SendCurrentFocusEvent_Resolve
    \/ SendCurrentFocusEvent_Stamp
    \/ SendCurrentFocusEvent_Emit
    \/ StopTracking_Begin
    \/ StopTracking_JoinUpdate
    \/ StopTracking_Finish
    \/ OnWindowFocusChanged_Enter
    \/ OnWindowFocusChanged_Lost
    \/ OnWindowFocusChanged_Gained
    \/ UpdateTimer_Loop
    \/ SendPeriodicUpdate_Emit
    \/ BrowserTabTimer_Loop
    \/ SendBrowserTabChangeEvent_Lost
    \/ SendBrowserTabChangeEvent_Gained

FairThreads ==
    /\ WF_vars(UpdateTimer_Loop)
    /\ WF_vars(SendPeriodicUpdate_Emit)
    /\ WF_vars(BrowserTabTimer_Loop)
    /\ WF_vars(SendBrowserTabChangeEvent_Lost)
    /\ WF_vars(SendBrowserTabChangeEvent_Gained)
    /\ WF_vars(StopTracking_JoinUpdate)
    /\ WF_vars(StopTracking_Finish)

SpecStop == Init /\ [][NextStop]_vars /\ FairThreads

\* the tracker without the tab thread, started with or without
\* includeSystemApps, on a desktop where the shell's window takes the focus
StartTrackingFilter == HandleStartTracking(FilterConfigs)

NextFilter ==
    \/ StartTrackingFilter
    \/ SendCurrentFocusEvent_Resolve
    \/ SendCurrentFocusEvent_Stamp
    \/ SendCurrentFocusEvent_Emit
    \/ StopTracking_Begin
    \/ StopTracking_JoinUpdate
    \/ StopTracking_Finish
    \/ OnWindowFocusChanged_Enter
    \/ OnWindowFocusChanged_System
    \/ OnWindowFocusChanged_Lost
    \/ OnWindowFocusChanged_Gained
    \/ UpdateTimer_Loop
    \/ SendPeriodicUpdate_Emit
    \/ Tick

SpecFilter == Init /\ [][NextFilter]_vars

\* the tracker and its two threads, started with or without metadata and
\* with or without browser tab tracking
StartTrackingTabs == HandleStartTracking(TabConfigs)

NextTabs ==
    \/ StartTrackingTabs
    \/ SendCurrentFocusEvent_Resolve
    \/ SendCurrentFocusEvent_Stamp
    \/ SendCurrentFocusEvent_Emit
    \/ StopTracking_Begin
    \/ StopTracking_JoinUpdate
    \/ StopTracking_Finish
    \/ OnWindowFocusChanged_Enter
    \/ OnWindowFocusChanged_Lost
    \/ OnWindowFocusChanged_Gained
    \/ UpdateTimer_Loop
    \/ SendPeriodicUpdate_Emit
    \/ BrowserTabTimer_Loop
    \/ SendBrowserTabChangeEvent_Lost
    \/ SendBrowserTabChangeEvent_Gained

SpecTabs == Init /\ [][NextTabs]_vars

\* start, stop, the two threads, and foreground-change notifications that
\* arrive with or without the hook installed
NextLate ==
    \/ StartTrackingPlain
    \/ SendCurrentFocusEvent_Resolve
    \/ SendCurrentFocusEvent_Stamp
    \/ SendCurrentFocusEvent_Emit
    \/ StopTracking_Begin
    \/ StopTracking_JoinUpdate
    \/ StopTracking_Finish
    \/ OnWindowFocusChanged_Enter
    \/ OnWindowFocusChanged_Late
    \/ OnWindowFocusChanged_Lost
    \/ OnWindowFocusChanged_Gained
    \/ UpdateTimer_Loop
    \/ SendPeriodicUpdate_Emit
    \/ BrowserTabTimer_Loop
    \/ SendBrowserTabChangeEvent_Lost
    \/ SendBrowserTabChangeEvent_Gained

SpecLate == Init /\ [][NextLate]_vars

\* start, stop, the two threads and foreground changes on a desktop where
\* the browser has two windows
NextWindows ==
    \/ StartTrackingPlain
    \/ SendCurrentFocusEvent_Resolve
    \/ SendCurrentFocusEvent_Stamp
    \/ SendCurrentFocusEvent_Emit
    \/ StopTracking_Begin
    \/ StopTracking_JoinUpdate
    \/ StopTracking_Finish
    \/ OnWindowFocusChanged_Enter
    \/ OnWindowFocusChanged_SecondWindow
    \/ OnWindowFocusChanged_Lost
    \/ OnWindowFocusChanged_Gained
    \/ UpdateTimer_Loop
    \/ SendPeriodicUpdate_Emit
    \/ BrowserTabTimer_Loop
    \/ SendBrowserTabChangeEvent_Lost
    \/ SendBrowserTabChangeEvent_Gained

SpecWindows == Init /\ [][NextWindows]_vars

\* the delivery channel with a registered consumer, driven by QueueEvent
\* calls and flushes only
InitChannel ==
    /\ InitMembers
    /\ event_sink_ \in ChannelSinks
    /\ message_window_ \in BOOLEAN

NextChannel ==
    \/ QueueEvent_Background
    \/ QueueEvent_Platform
    \/ MessageWndProc
    \/ TimerProc

SpecChannel == InitChannel /\ [][NextChannel]_vars

\* ------------------------------------------- the channel, mutex by mutex
\* FlushEventQueue: lock_guard on event_queue_mutex_
FlushEventQueue_Lock ==
    /\ Running /\ pcP = "idle" /\ flush_msgs > 0
    /\ event_queue_mutex_ = Unlocked
    /\ flush_msgs' = flush_msgs - 1
    /\ event_queue_mutex_' = "P"
    /\ pcP' = "flush_swap"
    /\ out' = <<>> /\ cb' = <<>>
    /\ UNCHANGED <<tracker, event_queue_, event_sink_, message_window_,
                   retry_timer, dropped, event_sink_mutex_, local_queue,
                   locP, pcU, locU, pcB, locB, desktop, sessions, next_event_id>>
    /\ ObserveEvents /\ result' = "none"

\* a flush that copies the queue and leaves the events in it
FlushEventQueue_Copy ==
    /\ Running /\ pcP = "flush_swap"
    /\ local_queue' = event_queue_
    /\ event_queue_mutex_' = Unlocked
    /\ pcP' = "flush_loop"
    /\ out' = <<>> /\ cb' = <<>>
    /\ UNCHANGED <<tracker, event_queue_, event_sink_, message_window_,
                   flush_msgs, retry_timer, dropped, event_sink_mutex_,
                   locP, pcU, locU, pcB, locB, desktop, sessions, next_event_id>>
    /\ ObserveEvents /\ result' = "none"

\* FlushEventQueue: std::swap(local_queue, event_queue_) and the end of the
\* scope of the lock
FlushEventQueue_Swap ==
    /\ Running /\ pcP = "flush_swap"
    /\ local_queue' = event_queue_
    /\ event_queue_' = local_queue
    /\ event_queue_mutex_' = Unlocked
    /\ pcP' = "flush_loop"
    /\ out' = <<>> /\ cb' = <<>>
    /\ UNCHANGED <<tracker, event_sink_, message_window_,
                   flush_msgs, retry_timer, dropped, event_sink_mutex_,
                   locP, pcU, locU, pcB, locB, desktop, sessions, next_event_id>>
    /\ ObserveEvents /\ result' = "none"

\* FlushEventQueue: the loop test, lock_guard on event_sink_mutex_ and the
\* test of event_sink_; without a sink the event is popped at once
FlushEventQueue_Loop ==
    /\ Running /\ pcP = "flush_loop"
    /\ IF local_queue = <<>>
       THEN pcP' = "idle" /\ UNCHANGED <<event_sink_mutex_, local_queue>>
       ELSE /\ event_sink_mutex_ = Unlocked
            /\ IF event_sink_ # NoSink
               THEN /\ event_sink_mutex_' = "P"
                    /\ pcP' = "flush_call"
                    /\ UNCHANGED local_queue
               ELSE /\ local_queue' = Tail(local_queue)
                    /\ UNCHANGED <<event_sink_mutex_, pcP>>
    /\ out' = <<>> /\ cb' = <<>>
    /\ UNCHANGED <<tracker, channel, dropped, event_queue_mutex_,
                   locP, pcU, locU, pcB, locB, desktop, sessions, next_event_id>>
    /\ ObserveEvents /\ result' = "none"

\* FlushEventQueue: event_sink_->Success(event) returns (or what it throws
\* is caught), the lock_guard ends, local_queue.pop()
FlushEventQueue_Success ==
    /\ Running /\ pcP = "flush_call"
    /\ cb' = <<[event |-> Head(local_queue), thread |-> "P",
                sink |-> event_sink_]>>
    /\ event_sink_mutex_' = Unlocked
    /\ local_queue' = Tail(local_queue)
    /\ pcP' = "flush_loop"
    /\ out' = <<>>
    /\ UNCHANGED <<tracker, channel, dropped, event_queue_mutex_,
                   locP, pcU, locU, pcB, locB, desktop, sessions, next_event_id>>
    /\ ObserveEvents /\ result' = "none"

\* QueueEvent on the platform thread: SendEventDirectly up to the call of
\* the sink, or to its end when there is no sink
SendEventDirectly_Lock ==
    /\ Running /\ pcP = "idle"
    /\ event_sink_mutex_ = Unlocked
    /\ out' = <<[event |-> ChannelEvent(0), thread |-> "P"]>>
    /\ IF event_sink_ # NoSink
       THEN event_sink_mutex_' = "P" /\ pcP' = "send_call"
       ELSE UNCHANGED <<event_sink_mutex_, pcP>>
    /\ cb' = <<>>
    /\ UNCHANGED <<tracker, channel, dropped, event_queue_mutex_, local_queue,
                   locP, pcU, locU, pcB, locB, desktop, sessions, next_event_id>>
    /\ ObserveEvents /\ result' = "none"

\* SendEventDirectly: event_sink_->Success(event) returns, the lock_guard ends
SendEventDirectly_Success ==
    /\ Running /\ pcP = "send_call"
    /\ cb' = <<[event |-> ChannelEvent(0), thread |-> "P",
                sink |-> event_sink_]>>
    /\ event_sink_mutex_' = Unlocked
    /\ pcP' = "idle"
    /\ out' = <<>>
    /\ UNCHANGED <<tracker, channel, dropped, event_queue_mutex_, local_queue,
                   locP, pcU, locU, pcB, locB, desktop, sessions, next_event_id>>
    /\ ObserveEvents /\ result' = "none"

\* the platform thread is inside event_sink_->Success
InCallback == pcP \in {"flush_call", "send_call"}

\* a consumer whose callback cancels the stream: OnCancelInternal's
\* lock_guard on event_sink_mutex_, on the thread that called the callback
Callback_OnCancelInternal ==
    /\ Running /\ InCallback
    /\ IF event_sink_mutex_ = "P"
       THEN /\ \E outcome \in RelockOutcomes : pcP' = outcome
            /\ UNCHANGED event_sink_
       ELSE /\ event_sink_' = NoSink
            /\ UNCHANGED pcP
    /\ out' = <<>> /\ cb' = <<>>
    /\ UNCHANGED <<tracker, event_queue_, message_window_, flush_msgs,
                   retry_timer, dropped, locks,
                   locP, pcU, locU, pcB, locB, desktop, sessions, next_event_id>>
    /\ ObserveEvents /\ result' = "none"

\* QueueEvent on a background thread: lock_guard on event_queue_mutex_
QueueEvent_Lock ==
    /\ Running /\ pcU = "none" /\ next_event_id <= MaxEventId
    /\ event_queue_mutex_ = Unlocked
    /\ event_queue_mutex_' = "U"
    /\ pcU' = "queue_push"
    /\ out' = <<>> /\ cb' = <<>>
    /\ UNCHANGED <<tracker, channel, dropped, event_sink_mutex_, local_queue,
                   pcP, locP, locU, pcB, locB, desktop, sessions, next_event_id>>
    /\ ObserveEvents /\ result' = "none"

\* QueueEvent on a background thread: the push, the trimming, the end of the
\* scope of the lock and PostMessage
QueueEvent_Push ==
    /\ Running /\ pcU = "queue_push"
    /\ QueueEvent("U", ChannelEvent(next_event_id))
    /\ event_queue_mutex_' = Unlocked
    /\ next_event_id' = next_event_id + 1
    /\ pcU' = "none"
    /\ UNCHANGED <<tracker, event_sink_, message_window_, event_sink_mutex_,
                   local_queue, pcP, locP, locU, pcB, locB, desktop, sessions>>
    /\ ObserveEvents /\ result' = "none"

\* the channel with or without a consumer, one background producer and the
\* platform thread, every mutex operation a step of its own
InitLocks ==
    /\ InitMembers
    /\ event_sink_ \in Sinks \cup {NoSink}
    /\ message_window_ = TRUE

NextLocks ==
    \/ FlushEventQueue_Lock
    \/ FlushEventQueue_Swap
    \/ FlushEventQueue_Loop
    \/ FlushEventQueue_Success
    \/ SendEventDirectly_Lock
    \/ SendEventDirectly_Success
    \/ Callback_OnCancelInternal
    \/ QueueEvent_Lock
    \/ QueueEvent_Push

SpecLocks == InitLocks /\ [][NextLocks]_vars

\* ------------------------------------------------------------------ claims
\* ids of the events waiting in event_queue_, oldest first
QueuedIds == [i \in 1..Len(event_queue_) |-> event_queue_[i].eventId]

\* id of the newest event a flush has handed to the consumer (0: none yet)
LastDelivered == IF delivered = <<>> THEN 0 ELSE Last(delivered)

\* C1: the consumer callback is invoked by the platform thread only; an
\* event produced on update_timer_ or browser_tab_check_timer_ reaches no
\* callback in the step that produces it, it is the newest entry of the queue
C1_SinkThreadAffinity ==
    /\ \A i \in 1..Len(cb) : cb[i].thread = "P"
    /\ (out # <<>> /\ out[1].thread \in {"U", "B"}) =>
          /\ cb = <<>>
          /\ event_queue_ # <<>>
          /\ Last(event_queue_) = out[1].event

\* a durationUpdate (produced on update_timer_ only) is handed to the
\* consumer by a flush on the platform thread
C1_Witness ==
    /\ cb # <<>>
    /\ cb[1].event.eventType = "durationUpdate"
    /\ cb[1].thread = "P"

\* C2: while nothing was dropped, the events handed to the consumer followed
\* by the events still queued are exactly the events enqueued from the
\* background threads, in enqueue order and each one time
C2_FifoExactlyOnce ==
    dropped = {} =>
        delivered \o QueuedIds = [i \in 1..(next_event_id - 1) |-> i]

\* three background events went through at least two flushes
C2_Witness ==
    /\ dropped = {}
    /\ Len(delivered) >= 3
    /\ cb # <<>>

\* C3: an event handed to QueueEvent on the platform thread is passed to the
\* registered consumer in that very step and event_queue_ is left as it was
C3_DeliverOnPlatformThread ==
    [][ (out' # <<>> /\ out'[1].thread = "P") =>
            /\ event_queue_' = event_queue_
            /\ event_sink_ # NoSink =>
                  cb' = <<[event |-> out'[1].event, thread |-> "P",
                           sink |-> event_sink_]>> ]_vars

\* a platform-thread event was delivered while background events wait in
\* the queue
C3_Witness ==
    /\ out # <<>> /\ out[1].thread = "P"
    /\ cb # <<>> /\ cb[1].event = out[1].event
    /\ event_queue_ # <<>>

\* C4: the queue never holds more than kMaxQueueSize events; it holds the
\* newest of the events enqueued since the last flush, in enqueue order,
\* and the older ones of them were dropped
C4_QueueOverflow ==
    LET enqueued == next_event_id - 1 - LastDelivered
        len == Len(event_queue_) IN
    /\ len <= kMaxQueueSize
    /\ len = IF enqueued > kMaxQueueSize THEN kMaxQueueSize ELSE enqueued
    /\ QueuedIds = [i \in 1..len |-> next_event_id - len + i - 1]
    /\ \A id \in (LastDelivered + 1)..(next_event_id - 1 - len) : id \in dropped

\* more than kMaxQueueSize events were enqueued without a flush
C4_Witness ==
    /\ next_event_id - 1 - LastDelivered > kMaxQueueSize
    /\ dropped # {}
    /\ Len(event_queue_) = kMaxQueueSize
\* the event of the last step, when there is one
Emitted == out # <<>>
EmittedType == IF Emitted THEN out[1].event.eventType ELSE "none"

\* C5: at every point of the event stream #gained - #lost is 0 or 1, and it
\* is 0 once tracking has stopped
C5_GainedLostBalance ==
    /\ balance \in {0, 1}
    /\ (~is_tracking_ /\ pcP = "idle") => balance = 0

\* C6: the duration of a "lost" or "durationUpdate" is never negative, and a
\* durationUpdate that follows another one without a "gained" or "lost" in
\* between does not report a smaller duration
C6_DurationsMonotone ==
    Emitted =>
        /\ EmittedType \in {"lost", "durationUpdate"} =>
              out[1].event.durationMicroseconds >= 0
        /\ (EmittedType = "durationUpdate" /\ prevUpd # NoDur) =>
              out[1].event.durationMicroseconds >= prevUpd

\* C7: when Start has resolved the foreground window it emits a "gained"
\* with duration 0, and no other event of the run was emitted before it
C7_InitialGainedFirst ==
    [][ (pcP = "start_emit" /\ pcP' = "idle") =>
            /\ run_emitted = 0
            /\ out' # <<>>
            /\ out'[1].event.eventType = "gained"
            /\ out'[1].event.durationMicroseconds = 0 ]_vars

\* the application of the open session passes the filter
SessionAppTracked ==
    \A app_info \in CreateAppInfo(current_focused_window_) : ShouldTrackApp(app_info)

\* C8: Stop with an open session (of an application that is tracked) emits
\* one final "lost" carrying now - focus_start_time_ and clears the session
C8_FinalLost ==
    [][ (pcP = "stop_join_tab" /\ pcP' = "idle"
            /\ current_process_id_ # 0 /\ SessionAppTracked) =>
            /\ out' # <<>>
            /\ out'[1].event.eventType = "lost"
            /\ out'[1].event.durationMicroseconds = now - focus_start_time_
            /\ current_process_id_' = 0 ]_vars

\* the identifier passes the excluded and the included set of config_
PassesLists(identifier) ==
    /\ identifier \notin config_.excludedApps
    /\ config_.includedApps # {} => identifier \in config_.includedApps

\* C9: every event that is queued, handed to the consumer or emitted in the
\* last step has an appIdentifier the configured sets let through
C9_FilterRespected ==
    /\ \A i \in 1..Len(event_queue_) : PassesLists(event_queue_[i].appIdentifier)
    /\ \A i \in 1..Len(cb) : PassesLists(cb[i].event.appIdentifier)
    /\ \A i \in 1..Len(out) : PassesLists(out[i].event.appIdentifier)

\* the application the tab watcher builds its events for
TabApp == [identifier |-> locB.identifier, processId |-> locB.pid]
\* the domain of the title the tab watcher has just read
PolledDomain == FirstDomain(PageTitle(locB.window_title))
DomainKeys == { <<d>> : d \in DomainTokens }
\* the poll found the domain of the browser changed from one value to another
DomainChanged ==
    /\ locB.identifier \in DOMAIN last_browser_tab_info_
    /\ last_browser_tab_info_[locB.identifier] \in DomainKeys
    /\ PolledDomain \in DomainKeys
    /\ PolledDomain # last_browser_tab_info_[locB.identifier]

\* C10 as stated: a change of domain between two polls emits a "lost" and
\* then a "gained", and the key stored afterwards is the new domain
C10_TabChangePair_Always ==
    [][ /\ (pcB = "tab_lost" /\ pcB' = "tab_gained" /\ DomainChanged) =>
              (out' # <<>> /\ out'[1].event.eventType = "lost")
        /\ (pcB = "tab_gained" /\ pcB' = "loop" /\ DomainChanged) =>
              /\ out' # <<>> /\ out'[1].event.eventType = "gained"
              /\ last_browser_tab_info_'[locB.identifier] = PolledDomain ]_vars

\* C10: a tab change found between two polls emits a "lost" and then a
\* "gained" for the browser, each if the browser passes ShouldTrackApp when
\* it is sent and none otherwise, and when the title read has a domain the
\* key stored afterwards is that domain, not the raw window title
C10_TabChangePair ==
    [][ /\ (pcB = "tab_lost" /\ pcB' = "tab_gained") =>
              IF ShouldTrackApp(TabApp)
              THEN /\ out' # <<>> /\ out'[1].thread = "B"
                   /\ out'[1].event.eventType = "lost"
                   /\ out'[1].event.appIdentifier = locB.identifier
              ELSE out' = <<>>
        /\ (pcB = "tab_gained" /\ pcB' = "loop") =>
              /\ IF ShouldTrackApp(TabApp)
                 THEN /\ out' # <<>> /\ out'[1].thread = "B"
                      /\ out'[1].event.eventType = "gained"
                      /\ out'[1].event.durationMicroseconds = 0
                      /\ out'[1].event.appIdentifier = locB.identifier
                 ELSE out' = <<>>
              /\ PolledDomain \in DomainKeys =>
                    /\ last_browser_tab_info_'[locB.identifier] = PolledDomain
                    /\ last_browser_tab_info_'[locB.identifier] # locB.window_title
        /\ (pcB = "loop" /\ pcB' = "tab_lost") =>
              /\ locB'.identifier \in DOMAIN last_browser_tab_info_
              /\ last_browser_tab_info_[locB'.identifier] # locB'.key ]_vars

\* the domain of the browser changed from a.com to b.com between two polls
\* and the tab watcher has emitted the "lost" of the pair
C10_Witness ==
    /\ pcB = "tab_gained"
    /\ Emitted /\ out[1].thread = "B" /\ EmittedType = "lost"
    /\ DomainChanged
    /\ last_browser_tab_info_[BrowserPath] = <<"a.com">>
    /\ PolledDomain = <<"b.com">>

\* ------------------------------------------------------------------ C11
\* what a Start in state Tracking and a Stop in state Stopped leave alone:
\* no event, no thread started or joined, the session, the session id, the
\* event queue and the tracking state
C11_Untouched ==
    /\ out' = <<>> /\ cb' = <<>>
    /\ UNCHANGED <<is_tracking_, current_process_id_, current_focused_window_,
                   focus_start_time_, session_id_, sessions, event_queue_,
                   g_event_hook, pcP, pcU, pcB>>

\* C11: a startTracking received while tracking and a StopTracking entered
\* while not tracking (the state the destructor finds when Start was never
\* called included) emit no event, start and join no thread and leave the
\* session, the session id, the event queue and is_tracking_ as they were
C11_RedundantStartStop ==
    [][ /\ (is_tracking_ /\ HandleStartTracking(Configs) => C11_Untouched)
        /\ (~is_tracking_ /\ StopTracking_Begin => C11_Untouched) ]_vars

\* StopTracking has returned at once in a plugin that never tracked
C11_Witness ==
    /\ result = "success" /\ sessions = 0 /\ ~is_tracking_
    /\ pcP = "idle" /\ pcU = "none" /\ pcB = "none"

\* ------------------------------------------------------------------ C12
\* C12: an OnListenInternal that finds events in the queue returns, and every
\* queued event has by then been handed, in queue order, to the callback it
\* registered
C12_ListenFlushes ==
    [][ (event_queue_ # <<>> /\ OnListenInternal) =>
          /\ pcP' = "idle"
          /\ event_sink_' # NoSink
          /\ cb' = [i \in 1..Len(event_queue_) |->
                      [event |-> event_queue_[i], thread |-> "P",
                       sink |-> event_sink_']] ]_vars

\* ------------------------------------------------------------------ C13
\* the events the callback was invoked with in the last step
Handed(invocations) == [i \in 1..Len(invocations) |-> invocations[i].event]

\* C13: an event leaves the queue only by being handed to a registered
\* callback or by the overflow drop of an enqueue; in every other step the
\* queue keeps what it held, so neither a flush without a consumer nor the
\* replacement of the consumer discards a queued event
C13_QueuedEventsKept ==
    [][ \/ /\ Len(event_queue_') >= Len(event_queue_)
           /\ SubSeq(event_queue_', 1, Len(event_queue_)) = event_queue_
        \/ /\ out' # <<>>
           /\ event_queue_' = DropOldest(Append(event_queue_, out'[1].event))
        \/ /\ event_queue_' = <<>>
           /\ Handed(cb') = event_queue_ ]_vars

\* ------------------------------------------------------------------ C14
\* C14: an exception the callback throws on one event of a flush keeps no
\* later event of that flush from the callback and changes nothing of their
\* order, and neither FlushEventQueue nor SendEventDirectly lets it escape:
\* the platform thread goes on
C14_CallbackFaultIsolated ==
    [][ /\ (flush_msgs' < flush_msgs /\ event_sink_ # NoSink =>
              /\ Handed(cb') = event_queue_
              /\ \A i \in 1..Len(cb') : cb'[i].sink = event_sink_
              /\ pcP' = "idle")
        /\ (out' # <<>> /\ out'[1].thread = "P" /\ event_sink_ # NoSink =>
              /\ Handed(cb') = <<out'[1].event>>
              /\ pcP' = "idle") ]_vars

\* a flush of two events whose first made the callback throw
C14_Witness ==
    /\ Len(cb) = 2
    /\ Throws(cb[1].sink, cb[1].event)
    /\ ~Throws(cb[2].sink, cb[2].event)
    /\ pcP = "idle"

SessionFields ==
    <<current_process_id_, current_focused_window_, focus_start_time_>>

\* C16: the focus-change sequence is atomic between its sources: while the
\* tab watcher is between its poll and its "gained", or the foreground-change
\* handler between its entry and its "gained", no other thread changes the
\* session, so the tab watcher's "lost" and its reset of focus_start_time_
\* act on the session the watcher observed
C16_FocusChangeAtomic ==
    [][ /\ (pcB \in {"tab_lost", "tab_gained"} /\ pcB' = pcB =>
              UNCHANGED SessionFields)
        /\ (pcP \in {"focus_lost", "focus_gained"} /\ pcP' = pcP =>
              UNCHANGED SessionFields)
        /\ (pcB \in {"tab_lost", "tab_gained"} /\ pcB' # pcB =>
              /\ current_process_id_ = locB.pid
              /\ focus_start_time_ <= locB.current_time) ]_vars

\* ------------------------------------------------------------------ C17
\* C17: a startTracking whose arguments are missing, are no map, or carry no
\* map under "config" is answered INVALID_ARGS at once and starts nothing:
\* the tracking state, the configuration, the session, the hook, the queue
\* and the threads stay as they were, and no event is emitted
C17_InvalidArgsRejected ==
    [][ \A arguments \in InvalidArguments :
          HandleMethodCall_startTracking(arguments) =>
             /\ result' = "INVALID_ARGS"
             /\ out' = <<>> /\ cb' = <<>>
             /\ UNCHANGED <<tracker, channel, threads, sessions>> ]_vars

\* a plugin that never tracked has answered INVALID_ARGS and is still stopped
\* with the configuration it was constructed with
C17_Witness ==
    /\ result = "INVALID_ARGS"
    /\ ~is_tracking_ /\ sessions = 0 /\ config_ = DefaultConfig
    /\ pcP = "idle" /\ pcU = "none" /\ pcB = "none"

\* ------------------------------------------------------------------ C18
\* C18: a SetWinEventHook that fails does not keep StartTracking from
\* starting: the tracker is tracking, update_timer_ runs its loop, the
\* initial "gained" of the focused window is emitted and the call is
\* answered with success
C18_StartWithoutHook ==
    [][ /\ \A arguments \in ValidArguments(PlainConfigs) :
             (/\ ~is_tracking_
              /\ HandleMethodCall_startTracking(arguments)
              /\ ~g_event_hook') =>
                /\ is_tracking_'
                /\ session_id_' # NoSession
                /\ pcU' = "loop"
                /\ pcP' = "start_focus"
                /\ result' = "none"
        /\ (pcP = "start_emit" /\ pcP' # pcP /\ ~g_event_hook =>
              /\ is_tracking_'
              /\ pcU' # "none"
              /\ out' # <<>>
              /\ out'[1].event.eventType = "gained"
              /\ out'[1].event.durationMicroseconds = 0
              /\ result' = "success") ]_vars

\* tracking without a hook: the initial "gained" has just been emitted, the
\* call was answered with success and update_timer_ is in its loop
C18_Witness ==
    /\ is_tracking_ /\ ~g_event_hook
    /\ result = "success"
    /\ out # <<>> /\ out[1].thread = "P" /\ out[1].event.eventType = "gained"
    /\ pcU \in {"loop", "update_emit"}

\* ------------------------------------------------------------------ C19
\* the steps a StopTracking waiting in its first join needs at most: each
\* background thread ends its iteration and leaves its loop, then the two
\* joins
StepsToStop ==
    (IF pcU = "update_emit" THEN 2 ELSE IF pcU = "loop" THEN 1 ELSE 0)
    + (IF pcB = "tab_lost" THEN 3 ELSE IF pcB = "tab_gained" THEN 2
       ELSE IF pcB = "loop" THEN 1 ELSE 0)
    + 2

\* C19: with both background threads scheduled fairly, a StopTracking that
\* has reached its joins (in an interleaving long enough for the steps that
\* remain) joins both threads and returns with the tracker stopped
C19_StopTerminates ==
    (pcP = "stop_join_update" /\ steps + StepsToStop <= MaxSteps)
        ~> (pcP = "idle" /\ ~is_tracking_ /\ pcU = "none" /\ pcB = "none")

\* ------------------------------------------------------------------ C20
\* C20: the configuration is not changed while the tracker is tracking; in
\* particular a startTracking received while tracking leaves the active
\* configuration as it was
C20_ConfigFixedWhileTracking ==
    [][ is_tracking_ => config_' = config_ ]_vars

\* ------------------------------------------------------------------ C21
\* C21: the callback receives the events in the order in which QueueEvent
\* was called for them, whichever thread called: an event a background
\* thread has queued is not overtaken by a later event of the platform
\* thread, so the callback is never handed a new event while an earlier one
\* is still waiting in the queue
C21_ArrivalOrder ==
    [][ (out' # <<>> /\ cb' # <<>>) => event_queue_ = <<>> ]_vars

\* ------------------------------------------------------------------ C22
\* GetDiagnosticInfo: the entries of the diagnostics map that depend on the
\* plugin's state
GetDiagnosticInfo ==
    [platform |-> "Windows", isTracking |-> is_tracking_,
     sessionId |-> session_id_, config |-> config_]
    @@ (IF current_process_id_ # 0
        THEN [focusStartTime |-> now - focus_start_time_]
        ELSE <<>>)

\* the entries of the diagnostics map that hold a number
IntegerDiagnostics == {"focusStartTime"} \cap DOMAIN GetDiagnosticInfo

\* C22: each time QueueEvent drops d oldest events, a counter that the
\* diagnostics expose increases by d
C22_DropCounter ==
    [][ dropped' # dropped =>
          \E k \in IntegerDiagnostics :
             /\ k \in DOMAIN GetDiagnosticInfo'
             /\ GetDiagnosticInfo'[k] =
                   GetDiagnosticInfo[k] + Cardinality(dropped' \ dropped) ]_vars

\* ------------------------------------------------------------------ C23
\* what SendFocusEvent hands to QueueEvent for an application: the event when
\* ShouldTrackApp lets it pass, nothing otherwise
Emission(thread, app_info, event_type, duration_microseconds) ==
    IF ShouldTrackApp(app_info)
    THEN <<[event |-> MkEvent(app_info, event_type, duration_microseconds, 0),
            thread |-> thread]>>
    ELSE <<>>

C24_RedundantNotification ==
    [][ (/\ pcP \in {"focus_lost", "focus_gained"} /\ pcP' # pcP
         /\ current_process_id_ = locP.pid) =>
            /\ out' = <<>> /\ cb' = <<>>
            /\ UNCHANGED SessionFields
            /\ pcP' = IF pcP = "focus_lost" THEN "focus_gained" ELSE "idle" ]_vars

\* a notification for the session's own process has been handled to its end
\* some time after the session began, and the session's start is untouched
C24_Witness ==
    /\ pcP = "focus_gained"
    /\ current_process_id_ = locP.pid
    /\ locP.current_time > focus_start_time_
    /\ out = <<>>

\* ------------------------------------------------------------------ C25
\* C25: a foreground-change notification whose window is null or resolves to
\* process id 0 is ignored: the handler returns at once, emits nothing, and
\* the session is as it was
C25_UnresolvedIgnored ==
    [][ \A hwnd \in HookedWindows :
          (is_tracking_ /\ hwnd \in {NullHwnd, StaleWindow}
           /\ OnWindowFocusChanged_Begin(hwnd)) =>
             /\ pcP' = "idle"
             /\ out' = <<>> /\ cb' = <<>>
             /\ UNCHANGED <<tracker, channel, threads>> ]_vars

\* a tracker with a hook and an open session, in its message loop: the state
\* in which a notification for a vanished window is ignored
C25_Witness ==
    /\ is_tracking_ /\ g_event_hook /\ pcP = "idle"
    /\ current_process_id_ # 0
    /\ out = <<>> /\ result = "none" /\ steps > 4


\* ------------------------------------------------------------------ C26
\* C26: the update thread goes on to emit only when it found tracking on and
\* a session open, and then reads the time; the emission is one
\* "durationUpdate" for the application of current_focused_window_ with that
\* time minus focus_start_time_, and it leaves focus_start_time_, the process
\* id and the window handle as they were; no other step of the update thread
\* emits
C26_PeriodicUpdate ==
    [][ /\ (pcU = "loop" /\ pcU' = "update_emit" =>
              /\ is_tracking_ /\ current_process_id_ # 0
              /\ locU' = [current_time |-> now]
              /\ out' = <<>>
              /\ UNCHANGED SessionFields)
        /\ (pcU = "loop" /\ (~is_tracking_ \/ current_process_id_ = 0) =>
              pcU' # "update_emit")
        /\ (pcU = "update_emit" /\ pcU' # pcU =>
              /\ pcU' = "loop"
              /\ out' \in { Emission("U", app_info, "durationUpdate",
                                     locU.current_time - focus_start_time_) :
                            app_info \in CreateAppInfo(current_focused_window_) }
              /\ UNCHANGED SessionFields)
        /\ (out' # <<>> /\ out'[1].thread = "U" =>
              /\ pcU = "update_emit"
              /\ out'[1].event.eventType = "durationUpdate") ]_vars

C26_Witness ==
    /\ out # <<>>
    /\ out[1].thread = "U"
    /\ out[1].event.eventType = "durationUpdate"
    /\ out[1].event.processId = current_process_id_
    /\ out[1].event.durationMicroseconds > 0
    /\ out[1].event.durationMicroseconds = now - focus_start_time_
    /\ is_tracking_ /\ pcU = "loop"

\* ------------------------------------------------------------------ C27
\* C27: a tab change emits a "lost" for the browser with the time read at its
\* start minus focus_start_time_ and leaves the session as it is; its next
\* step sets focus_start_time_ to that time, keeps process id and window
\* handle, and emits a "gained" with duration 0; a periodic update measures
\* from the focus_start_time_ it finds
C27_TabChange ==
    [][ /\ (pcB = "tab_lost" /\ pcB' # pcB =>
              /\ pcB' = "tab_gained"
              /\ out' = Emission("B", [identifier |-> locB.identifier,
                                       processId |-> locB.pid],
                                 "lost", locB.current_time - focus_start_time_)
              /\ UNCHANGED SessionFields)
        /\ (pcB = "tab_gained" /\ pcB' # pcB =>
              /\ pcB' = "loop"
              /\ focus_start_time_' = locB.current_time
              /\ UNCHANGED <<current_process_id_, current_focused_window_>>
              /\ out' = Emission("B", [identifier |-> locB.identifier,
                                       processId |-> locB.pid],
                                 "gained", 0))
        /\ (pcU = "update_emit" /\ pcU' # pcU /\ out' # <<>> =>
              out'[1].event.durationMicroseconds =
                 locU.current_time - focus_start_time_) ]_vars

C27_Witness ==
    /\ out # <<>>
    /\ out[1].thread = "B"
    /\ out[1].event.eventType = "gained"
    /\ out[1].event.durationMicroseconds = 0
    /\ focus_start_time_ > 0
    /\ focus_start_time_ = now
    /\ current_focused_window_ = BrowserWindow
    /\ pcB = "loop" /\ pcP = "idle"


\* ------------------------------------------------------------------ C28
\* C28: every emitted event carries the session id of the tracker, which is
\* not empty at that moment; the session id changes only when StartTracking
\* generates a new one (from empty, with tracking switched on) and when
\* StopTracking clears it at its end, after the final "lost"; focus changes,
\* tab changes and periodic updates leave it alone
C28_SessionId ==
    [][ /\ (out' # <<>> =>
              /\ session_id_ # NoSession
              /\ out'[1].event.sessionId = session_id_)
        /\ (session_id_' # session_id_ =>
              \/ /\ session_id_ = NoSession
                 /\ ~is_tracking_ /\ is_tracking_'
                 /\ sessions' = sessions + 1
                 /\ session_id_' = sessions'
                 /\ pcP = "idle"
              \/ /\ session_id_' = NoSession
                 /\ pcP = "stop_join_tab" /\ pcP' = "idle"
                 /\ ~is_tracking_
                 /\ sessions' = sessions)
        /\ (is_tracking_' => session_id_' # NoSession) ]_vars

C28_Witness ==
    /\ out # <<>>
    /\ out[1].event.eventType = "gained"
    /\ out[1].event.sessionId = 2
    /\ sessions = 2
    /\ session_id_ = 2
    /\ is_tracking_


\* ------------------------------------------------------------------ C29
\* the tab watcher's round reaches the comparison: tracking, a session open,
\* and the focused window a browser's
PollsBrowser ==
    /\ is_tracking_ /\ current_process_id_ # 0
    /\ current_focused_window_ # NullHwnd
    /\ LET proc_info == GetProcessInfoFromWindow(current_focused_window_,
                                                 EmptyString) IN
       /\ proc_info.processId # 0
       /\ IsBrowserProcess(proc_info.processName, proc_info.executablePath)

\* the key the tab watcher computes when the focused window shows window_text
PolledKey(window_text) ==
    LET proc_info == GetProcessInfoFromWindow(current_focused_window_,
                                              window_text) IN
    ComparisonKey(ExtractBrowserTabInfo(proc_info.windowTitle,
                                        proc_info.processName),
                  proc_info.windowTitle)

PolledPath ==
    GetProcessInfoFromWindow(current_focused_window_, EmptyString).executablePath

\* C29: a round of the tab watcher on a browser stores the key and emits
\* nothing when the browser has no stored key; it changes nothing and emits
\* nothing when the stored key equals the computed one; only when they
\* differ does it go on to the transition, whose last step stores the new
\* key; the tab watcher emits in the two steps of the transition only
C29_TabPoll ==
    [][ /\ \A window_text \in BrowserTitles :
             (PollsBrowser /\ CheckForBrowserTabChanges(window_text)) =>
                /\ out' = <<>> /\ cb' = <<>>
                /\ UNCHANGED SessionFields
                /\ IF PolledPath \notin DOMAIN last_browser_tab_info_
                   THEN /\ last_browser_tab_info_' =
                              MapPut(last_browser_tab_info_, PolledPath,
                                     PolledKey(window_text))
                        /\ pcB' = "loop"
                   ELSE IF last_browser_tab_info_[PolledPath] =
                              PolledKey(window_text)
                   THEN /\ UNCHANGED <<tracker, channel, threads>>
                   ELSE /\ UNCHANGED last_browser_tab_info_
                        /\ pcB' = "tab_lost"
                        /\ locB'.identifier = PolledPath
                        /\ locB'.key = PolledKey(window_text)
        /\ (pcB = "tab_lost" /\ pcB' # pcB => UNCHANGED last_browser_tab_info_)
        /\ (pcB = "tab_gained" /\ pcB' # pcB =>
              last_browser_tab_info_' =
                 MapPut(last_browser_tab_info_, locB.identifier, locB.key))
        /\ (out' # <<>> /\ out'[1].thread = "B" =>
              pcB \in {"tab_lost", "tab_gained"}) ]_vars

C29_Witness ==
    /\ out # <<>>
    /\ out[1].thread = "B"
    /\ out[1].event.eventType = "gained"
    /\ BrowserPath \in DOMAIN last_browser_tab_info_
    /\ last_browser_tab_info_[BrowserPath] \in {<<"a.com">>, <<"b.com">>, <<"Inbox">>}
    /\ pcB = "loop"


\* ------------------------------------------------------------------ C30
\* the tab watcher's round finds the focused window to be of a process that
\* is no browser
PollsOther ==
    /\ is_tracking_ /\ current_process_id_ # 0
    /\ current_focused_window_ # NullHwnd
    /\ LET proc_info == GetProcessInfoFromWindow(current_focused_window_,
                                                 EmptyString) IN
       /\ proc_info.processId # 0
       /\ ~IsBrowserProcess(proc_info.processName, proc_info.executablePath)

\* C30: a round of the tab watcher that finds a window of no browser empties
\* the map of stored keys and emits nothing; the end of StopTracking empties
\* it, and it is empty whenever tracking is off and no call is under way;
\* the map changes in steps of the tab watcher and at the end of StopTracking
\* only, and a round on a browser that finds the map empty stores the key
\* without going on to a transition
C30_TabInfoCleared ==
    [][ /\ \A window_text \in BrowserTitles :
             (PollsOther /\ CheckForBrowserTabChanges(window_text)) =>
                /\ last_browser_tab_info_' = EmptyMap
                /\ out' = <<>>
                /\ pcB' = "loop"
        /\ (pcP = "stop_join_tab" /\ pcP' = "idle" =>
              last_browser_tab_info_' = EmptyMap)
        /\ (~is_tracking_' /\ pcP' = "idle" => last_browser_tab_info_' = EmptyMap)
        /\ (last_browser_tab_info_' # last_browser_tab_info_ =>
              \/ pcB \in {"loop", "tab_gained"} /\ pcB' = "loop"
              \/ pcP = "stop_join_tab" /\ pcP' = "idle")
        /\ \A window_text \in BrowserTitles :
             (/\ PollsBrowser /\ last_browser_tab_info_ = EmptyMap
              /\ CheckForBrowserTabChanges(window_text)) =>
                /\ pcB' = "loop"
                /\ out' = <<>>
                /\ DOMAIN last_browser_tab_info_' = {PolledPath} ]_vars

C30_Witness ==
    /\ is_tracking_ /\ pcB = "loop" /\ pcP = "idle"
    /\ current_focused_window_ = EditorWindow
    /\ last_browser_tab_info_ = EmptyMap
    /\ out = <<>>
    /\ run_emitted = 2 /\ balance = 1
    /\ steps >= 9


\* ------------------------------------------------------------------ C31
\* C31: while includeSystemApps is off no step emits an event whose
\* application identifier ends in a file name of system_apps: the "gained",
\* the periodic updates and the "lost" of the shell's window are dropped;
\* while it is on the file name plays no part, the filter lets pass exactly
\* what the exclude and include lists let pass, and the "gained" for the
\* shell's window is emitted
C31_SystemApps ==
    [][ /\ (out' # <<>> /\ ~config_.includeSystemApps =>
              FileName(out'[1].event.appIdentifier) \notin system_apps)
        /\ (config_.includeSystemApps =>
              \A hwnd \in Windows \cup {SystemWindow} :
                 \A app_info \in CreateAppInfo(hwnd) :
                    ShouldTrackApp(app_info) <=>
                       /\ app_info.identifier \notin config_.excludedApps
                       /\ \/ config_.includedApps = {}
                          \/ app_info.identifier \in config_.includedApps)
        /\ (/\ pcP = "focus_gained" /\ pcP' # pcP
            /\ locP.hwnd = SystemWindow /\ current_process_id_ # locP.pid
            => (out' # <<>>) = config_.includeSystemApps)
        /\ (/\ pcU = "update_emit" /\ pcU' # pcU
            /\ current_focused_window_ = SystemWindow
            => (out' # <<>>) = config_.includeSystemApps) ]_vars

C31_Witness ==
    /\ is_tracking_ /\ ~config_.includeSystemApps
    /\ current_focused_window_ = SystemWindow
    /\ current_process_id_ = 4
    /\ focus_start_time_ < now
    /\ pcU = "loop" /\ locU = IdleU
    /\ pcP = "idle"
    /\ out = <<>> /\ run_emitted = 2


\* ------------------------------------------------------------------ C32
\* C32: a start that switches tracking on with enableBrowserTabTracking set
\* leaves the tab thread in its loop, whatever includeMetadata is
C32_TabWatcherStarted ==
    [][ (~is_tracking_ /\ is_tracking_' /\ config_'.enableBrowserTabTracking)
           => pcB' = "loop" ]_vars

\* with enableBrowserTabTracking off at the start no tab thread exists
C32_NoWatcherWhenDisabled ==
    [][ (~is_tracking_ /\ is_tracking_' /\ ~config_'.enableBrowserTabTracking)
           => pcB' = "none" ]_vars


\* ------------------------------------------------------------------ C33
\* C33: while the platform thread is inside the consumer callback it does
\* not hold event_sink_mutex_
C33_CallbackOutsideSinkLock == InCallback => event_sink_mutex_ = Unlocked

\* ------------------------------------------------------------------ C34
\* ids of the events of a queue, oldest first
IdsOf(queue) == [i \in 1..Len(queue) |-> queue[i].eventId]

\* the events handed to the consumer, drained and waiting, oldest first
Accounted == delivered \o IdsOf(local_queue) \o IdsOf(event_queue_)

\* while the callback runs the platform thread does not hold
\* event_queue_mutex_, so that a producer finds it free unless it holds it
\* itself; with a consumer registered every event a producer has queued is
\* delivered, drained or waiting exactly once, in the order of its id, unless
\* the trimming dropped it
SwapAndDrain ==
    /\ InCallback => event_queue_mutex_ # "P"
    /\ event_queue_mutex_ = "U" <=> pcU = "queue_push"
    /\ event_queue_mutex_ = "P" <=> pcP = "flush_swap"
    /\ event_sink_ # NoSink =>
          /\ \A i, j \in 1..Len(Accounted) : i < j => Accounted[i] < Accounted[j]
          /\ { Accounted[i] : i \in 1..Len(Accounted) } \cup dropped
                = 1..(next_event_id - 1)

\* C34: the flush drains a swapped-out copy of the queue without holding
\* event_queue_mutex_ during the callback; an event a producer queues while
\* the flush is under way goes to event_queue_ and waits there for the next
\* flush, the drained copy is not touched by it; no event is lost or
\* delivered twice
C34_SwapAndDrain ==
    [][ /\ SwapAndDrain'
        /\ (/\ pcP \in {"flush_loop", "flush_call"}
            /\ pcU = "queue_push" /\ pcU' = "none"
            => /\ local_queue' = local_queue
               /\ event_queue_' =
                     DropOldest(Append(event_queue_, ChannelEvent(next_event_id)))
               /\ Last(event_queue_') = ChannelEvent(next_event_id))
        /\ (pcP \in {"flush_loop", "flush_call"} /\ pcP' # pcP =>
              UNCHANGED event_queue_) ]_vars

C34_Witness ==
    /\ pcP = "flush_call"
    /\ event_sink_mutex_ = "P"
    /\ event_queue_mutex_ = Unlocked
    /\ local_queue # <<>> /\ event_queue_ # <<>>
    /\ Head(event_queue_).eventId > Last(local_queue).eventId
    /\ flush_msgs > 0


\* ------------------------------------------------------------------ C35
\* the tab thread exists and has not ended
TabThreadAlive == pcB \in {"loop", "tab_lost", "tab_gained"}

\* C35: the clear of last_browser_tab_info_ by the thread that calls
\* StopTracking happens after the tab thread has ended; while the tab thread
\* is alive the map changes in its own steps only (the store and the clear
\* of a round, the store that ends a tab change), and the platform thread
\* stays where it is in those steps
C35_TabInfoExclusive ==
    [][ /\ (pcP = "stop_join_tab" /\ pcP' # pcP =>
              /\ ~TabThreadAlive
              /\ pcB' = "none")
        /\ (TabThreadAlive /\ last_browser_tab_info_' # last_browser_tab_info_ =>
              /\ pcB \in {"loop", "tab_gained"}
              /\ pcB' = "loop"
              /\ UNCHANGED <<pcP, locP>>)
        /\ (pcB = "none" /\ TabThreadAlive' =>
              /\ last_browser_tab_info_ = EmptyMap
              /\ UNCHANGED last_browser_tab_info_) ]_vars

C35_Witness ==
    /\ ~is_tracking_ /\ pcP = "idle" /\ pcB = "none" /\ pcU = "none"
    /\ sessions = 1 /\ result = "success"
    /\ config_.includeMetadata /\ config_.enableBrowserTabTracking
    /\ last_browser_tab_info_ = EmptyMap
    /\ out # <<>>
    /\ out[1].event.eventType = "lost"
    /\ out[1].event.appIdentifier = BrowserPath
    /\ steps >= 8


\* ------------------------------------------------------------------ C36
\* tracking is off and no call is under way
Stopped == ~is_tracking_ /\ pcP = "idle"

\* C36: when StopTracking has returned no event of the run waits in
\* event_queue_ for a later flush
C36_QueueEmptyAfterStop == Stopped => event_queue_ = <<>>


\* ------------------------------------------------------------------ C37
\* C37: a "lost" event carries the process id and the identifier of the
\* run's latest "gained" event
C37_LostClosesSession ==
    [][ (/\ out' # <<>>
         /\ out'[1].event.eventType = "lost"
         /\ last_gained # NoGained)
        => <<out'[1].event.processId, out'[1].event.appIdentifier>>
              = last_gained ]_vars


\* ------------------------------------------------------------------ C38
\* C38: when tracking is off and no call is under way the session is closed,
\* the session id is empty and neither background thread exists; a
\* foreground-change notification handled in that state emits nothing and
\* changes no field; a background thread that finds tracking off at its loop
\* test ends without an event and without touching the session
C38_StoppedIsClosed ==
    [][ /\ (Stopped' =>
              /\ current_process_id_' = 0
              /\ session_id_' = NoSession
              /\ pcU' = "none" /\ pcB' = "none")
        /\ \A hwnd \in HookedWindows :
             (Stopped /\ OnWindowFocusChanged_Handle(hwnd)) =>
                /\ out' = <<>> /\ cb' = <<>>
                /\ UNCHANGED <<tracker, channel, threads>>
        /\ (~is_tracking_ /\ pcU = "loop" /\ pcU' # pcU =>
              pcU' = "done" /\ out' = <<>> /\ UNCHANGED tracker)
        /\ (~is_tracking_ /\ pcB = "loop" /\ pcB' # pcB =>
              pcB' = "done" /\ out' = <<>> /\ UNCHANGED tracker) ]_vars

C38_Witness ==
    /\ Stopped
    /\ sessions = 1 /\ ~g_event_hook
    /\ result = "none" /\ out = <<>>
    /\ current_process_id_ = 0 /\ session_id_ = NoSession
    /\ current_focused_window_ # NullHwnd


\* ------------------------------------------------------------------ C39
\* C39: a start that opens a new session finds both thread handles empty and
\* leaves the update thread, and the tab thread when it is enabled, in its
\* loop; a handle gets a thread in no other step, and only when it is empty;
\* when StopTracking has returned both handles are empty again
C39_ThreadsPerRun ==
    [][ /\ (session_id_' \notin {session_id_, NoSession} =>
              /\ pcU = "none" /\ pcB = "none"
              /\ pcU' = "loop"
              /\ pcB' \in {"loop", "none"})
        /\ (pcU' = "loop" /\ pcU \notin {"loop", "update_emit"} =>
              pcU = "none" /\ ~is_tracking_ /\ is_tracking_')
        /\ (pcB' = "loop" /\ ~TabThreadAlive =>
              pcB = "none" /\ ~is_tracking_ /\ is_tracking_')
        /\ ((~is_tracking_' /\ pcP' = "idle") =>
              pcU' = "none" /\ pcB' = "none") ]_vars

C39_Witness ==
    /\ sessions = 2 /\ session_id_ = 2
    /\ is_tracking_ /\ pcP = "start_focus"
    /\ pcU = "loop" /\ pcB = "loop"
    /\ locU = IdleU /\ locB = IdleB


\* ------------------------------------------------------------------ C40
\* C40: when the handler of a foreground-change notification for a window
\* that resolved to a process has run to its end, current_focused_window_ is
\* that window
C40_WindowOfLastNotification ==
    [][ (pcP = "focus_gained" /\ pcP' = "idle") =>
           current_focused_window_' = locP.hwnd ]_vars

====
